---------------------------- MODULE Spec2Model ----------------------------
(***************************************************************************)
(* bchd -- basic character device (src/bchd.c).                            *)
(*                                                                         *)
(* The device keeps its bytes in a linked list of quantum sets; every      *)
(* quantum set holds an array of qset_size pointers to quanta of           *)
(* quantum_size bytes.  read/write/open are the file operations, and a     *)
(* delayed work item (bchd_log_word) logs one word of the stored text per  *)
(* second.  All of them take dev->lock.                                    *)
(*                                                                         *)
(* Representation.  The list dev->data is a sequence; its i-th element is  *)
(* the `data' field of the i-th struct bchd_qset: NULL or an array of      *)
(* qset_size slots; a slot is NULL or a quantum, an array of quantum_size  *)
(* bytes.  kmalloc does not clear a quantum, so a byte of a quantum that   *)
(* no copy_from_user has stored yet is Uninit: whoever reads it gets an    *)
(* arbitrary value.                                                        *)
(***************************************************************************)
EXTENDS Integers, Sequences, FiniteSets, TLC

VARIABLES
    bchd_quantum_size,  \* int bchd_quantum_size  (module global)
    bchd_qset_size,     \* int bchd_qset_size     (module global)
    bchd_max_word_len,  \* int bchd_max_word_len  (module global)
    data,               \* dev->data: the list of quantum sets
    quantum_size,       \* dev->quantum_size
    qset_size,          \* dev->qset_size
    size,               \* dev->size
    max_word_len,       \* dev->max_word_len
    log_pos,            \* dev->log_pos
    scheduled,          \* dev->ws_logger is pending in dev->wq_logger
    lock,               \* dev->lock is taken
    pc,                 \* per task: the critical section it is in, or "idle"
    last,               \* what the last call returned / printed
    io,                 \* the session of a user program (SpecIO only)
    mod                 \* the module: bchd_init / bchd_cleanup and what they built

storeVars == <<data, quantum_size, qset_size, size, max_word_len, log_pos>>
confVars == <<bchd_quantum_size, bchd_qset_size, bchd_max_word_len>>
vars == <<bchd_quantum_size, bchd_qset_size, bchd_max_word_len, data,
          quantum_size, qset_size, size, max_word_len, log_pos, scheduled,
          lock, pc, last, io, mod>>

---------------------------------------------------------------------------
(* Program constants *)

ENOMEM == 12
EFAULT == 14
ERESTARTSYS == 512

SPACE == 32
NEWLINE == 10

(* Bounds of the model *)

MaxPos == 2        \* file positions 0..MaxPos are tried by read and write
MaxCount == 2      \* a call passes a buffer of 0..MaxCount bytes
MaxOff == 2        \* SpecIO: the session starts at an offset in 0..MaxOff
MaxLen == 3        \* SpecIO: payloads of 1..MaxLen bytes (and HelloWorld)

NULL == <<>>
Uninit == 0 - 1

Min(a, b) == IF a < b THEN a ELSE b
Max(a, b) == IF a > b THEN a ELSE b

\* The bytes user programs write.
Byte == {SPACE, 97}

\* The builds tried: BCHD_QUANTUM (q), BCHD_QSET (s) and BCHD_MAX_WORD_LEN (w)
\* are #ifndef-guarded compile-time parameters.
Configs == {[q |-> 2, s |-> 1, w |-> 2], [q |-> 1, s |-> 2, w |-> 2]}

Tasks == {"u1", "u2", "kworker"}
Users == {"u1", "u2"}

---------------------------------------------------------------------------
(* The store *)

\* Lines 204-207, 248-251, 384-387: list item, qset index, offset in quantum.
Resolve(pos, q, s) ==
    LET item_size == q * s
        rest == pos % item_size
    IN  [item |-> pos \div item_size,
         qset_pos |-> rest \div q,
         q_pos |-> rest % q]

\* kmalloc(quantum_size): the memory is not cleared.
NewQuantum(q) == [i \in 1..q |-> Uninit]

\* kmalloc(qset_size * sizeof(char *)) followed by memset 0.
NewQsetData(s) == [i \in 1..s |-> NULL]

bchd_follow_Rollback(list, n, avail) ==
    LET need == IF n + 1 > Len(list) THEN n + 1 - Len(list) ELSE 0
    IN  IF avail < need
        THEN [data |-> list, dptr |-> 0, used |-> avail]
        ELSE [data |-> list \o [i \in 1..need |-> NULL], dptr |-> n + 1,
              used |-> need]

\* bchd_follow(dev, n) when the next `avail' kmalloc calls succeed and the
\* one after them fails.  dptr is the 1-based index of the item returned,
\* 0 for NULL; used is the number of items allocated.
bchd_follow(list, n, avail) ==
    LET need == IF n + 1 > Len(list) THEN n + 1 - Len(list) ELSE 0
        got == Min(need, avail)
    IN  [data |-> list \o [i \in 1..got |-> NULL],
         dptr |-> IF got = need THEN n + 1 ELSE 0,
         used |-> got]

\* The kmalloc calls a write at f_pos makes when none fails.
WriteAllocs(list, f_pos, q, s) ==
    LET r == Resolve(f_pos, q, s)
        need == IF r.item + 1 > Len(list) THEN r.item + 1 - Len(list) ELSE 0
        noArr == need > 0 \/ list[r.item + 1] = NULL
        noQ == noArr \/ list[r.item + 1][r.qset_pos + 1] = NULL
    IN  need + (IF noArr THEN 1 ELSE 0) + (IF noQ THEN 1 ELSE 0)

\* The kmalloc calls bchd_follow makes for the item of pos when none fails.
FollowAllocs(list, pos, q, s) ==
    LET r == Resolve(pos, q, s)
    IN  IF r.item + 1 > Len(list) THEN r.item + 1 - Len(list) ELSE 0

KeptData == data

\* bchd_trim, lines 96-107 and 113: every quantum, array and list item is
\* freed and dev->data is NULL.
TrimmedData == <<>>

CopyFromUser_AtStart(quantum, q_pos, buf, count, copied) ==
    [i \in 1..Len(quantum) |-> IF i <= copied THEN buf[i] ELSE quantum[i]]

\* copy_from_user(quantum + q_pos, buf, count) that stores `copied' bytes:
\* copied = count is success; on a fault the kernel clears the rest of the
\* destination range.
CopyFromUser(quantum, q_pos, buf, count, copied) ==
    [i \in 1..Len(quantum) |->
        IF i > q_pos /\ i <= q_pos + copied THEN buf[i - q_pos]
        ELSE IF i > q_pos + copied /\ i <= q_pos + count THEN 0
        ELSE quantum[i]]

NewSize_Always(sz, f_pos) == f_pos

NewSize_PlusOne(sz, f_pos) == IF sz < f_pos + 1 THEN f_pos + 1 ELSE sz

\* Lines 284-287: dev->size after a write that left the position at f_pos.
NewSize(sz, f_pos) == IF sz < f_pos THEN f_pos ELSE sz

\* bchd_write between mutex_lock and mutex_unlock, lines 247-290.
\* avail: kmalloc calls that succeed; copied: bytes copy_from_user stores.
WriteOutcome(list, sz, q, s, f_pos, buf, avail, copied) ==
    LET r == Resolve(f_pos, q, s)
        fl == bchd_follow(list, r.item, avail)
        a1 == avail - fl.used
        oom == [data |-> fl.data, size |-> sz, ret |-> 0 - ENOMEM, f_pos |-> f_pos]
    IN  IF fl.dptr = 0 THEN oom
        ELSE
        LET arr0 == fl.data[fl.dptr]
        IN  IF arr0 = NULL /\ a1 = 0 THEN oom
            ELSE
            LET arr1 == IF arr0 = NULL THEN NewQsetData(s) ELSE arr0
                a2 == IF arr0 = NULL THEN a1 - 1 ELSE a1
                d1 == [fl.data EXCEPT ![fl.dptr] = arr1]
            IN  IF arr1[r.qset_pos + 1] = NULL /\ a2 = 0
                THEN [oom EXCEPT !.data = d1]
                ELSE
                LET q0 == IF arr1[r.qset_pos + 1] = NULL
                          THEN NewQuantum(q) ELSE arr1[r.qset_pos + 1]
                    count == Min(Len(buf), q - r.q_pos)
                    n == Min(copied, count)
                    q1 == CopyFromUser(q0, r.q_pos, buf, count, n)
                    d2 == [d1 EXCEPT ![fl.dptr][r.qset_pos + 1] = q1]
                IN  IF n < count
                    THEN [data |-> d2, size |-> sz, ret |-> 0 - EFAULT,
                          f_pos |-> f_pos]
                    ELSE [data |-> d2, size |-> NewSize(sz, f_pos + count),
                          ret |-> count, f_pos |-> f_pos + count]

ClipToSize_None(cnt, sz, f_pos) == cnt

\* Lines 199-201: a read does not go beyond dev->size.
ClipToSize(cnt, sz, f_pos) == IF f_pos + cnt > sz THEN sz - f_pos ELSE cnt

\* bchd_read between mutex_lock and mutex_unlock, lines 196-229.
\* avail: kmalloc calls that succeed; fault: copy_to_user fails.
ReadOutcome(list, sz, q, s, f_pos, cnt, avail, fault) ==
    LET none == [data |-> list, ret |-> 0, f_pos |-> f_pos, buf |-> <<>>]
    IN  IF f_pos >= sz THEN none
        ELSE
        LET count1 == ClipToSize(cnt, sz, f_pos)
            r == Resolve(f_pos, q, s)
            fl == bchd_follow(list, r.item, avail)
            hole == [none EXCEPT !.data = fl.data]
        IN  IF fl.dptr = 0 THEN hole
            ELSE IF fl.data[fl.dptr] = NULL THEN hole
            ELSE IF fl.data[fl.dptr][r.qset_pos + 1] = NULL THEN hole
            ELSE
            LET count2 == Min(count1, q - r.q_pos)
                quantum == fl.data[fl.dptr][r.qset_pos + 1]
            IN  IF fault /\ count2 > 0
                THEN [hole EXCEPT !.ret = 0 - EFAULT]
                ELSE [data |-> fl.data, ret |-> count2,
                      f_pos |-> f_pos + count2,
                      buf |-> [i \in 1..count2 |-> quantum[r.q_pos + i]]]

\* bchd_log_word, lines 404-425: the scan of the quantum from q_pos + i on,
\* at most lim iterations.  A byte that is Uninit has an arbitrary value:
\* both outcomes of the separator test are possible.  The set of the
\* possible results [word, log_pos].
RECURSIVE ScanWord(_, _, _, _, _, _)
ScanWord(quantum, q_pos, i, lim, word, lp) ==
    IF i >= lim THEN {[word |-> word, log_pos |-> lp]}
    ELSE
    LET c == quantum[q_pos + i + 1]
        endOfWord == {[word |-> Append(word, SPACE), log_pos |-> lp + 1]}
        accepted == IF c >= SPACE \/ c <= 126
                    THEN ScanWord(quantum, q_pos, i + 1, lim, Append(word, c), lp + 1)
                    ELSE ScanWord(quantum, q_pos, i + 1, lim, word, lp)
    IN  IF c = Uninit THEN endOfWord \cup accepted
        ELSE IF c = SPACE \/ c = NEWLINE THEN endOfWord
        ELSE accepted

WrapPos_NoPlusOne(lp, sz) == IF lp >= sz THEN 0 ELSE lp

WrapPos_Never(lp, sz) == lp

\* Lines 376-378: the position the work item reads from.
WrapPos(lp, sz) == IF lp + 1 >= sz THEN 0 ELSE lp

ScanLimit_Full(max_cnt) == max_cnt

\* Line 404: the scan makes at most max_cnt - 1 iterations.
ScanLimit(max_cnt) == max_cnt - 1

NoData_NoResched(list, lp) ==
    [data |-> list, log_pos |-> lp, path |-> "nodata", word |-> <<>>,
     resched |-> FALSE]

\* Lines 364-370: nothing is stored; the message is printed and the work
\* queued again.
NoData(list, lp) ==
    [data |-> list, log_pos |-> lp, path |-> "nodata", word |-> <<>>,
     resched |-> TRUE]

\* bchd_log_word between mutex_lock and mutex_unlock, lines 364-435.
\* path: "nodata" (lines 364-370), "skip" (line 392) or "word"; resched
\* tells whether queue_delayed_work was called.
TickOutcomes(list, sz, q, s, mwl, lp, avail) ==
    IF sz = 0
    THEN {NoData(list, lp)}
    ELSE
    LET lp0 == WrapPos(lp, sz)
        max_cnt1 == IF lp0 + mwl > sz THEN sz - lp0 ELSE mwl
        r == Resolve(lp0, q, s)
        fl == bchd_follow(list, r.item, avail)
        skip == {[data |-> fl.data, log_pos |-> lp0, path |-> "skip",
                  word |-> <<>>, resched |-> FALSE]}
    IN  IF fl.dptr = 0 THEN skip
        ELSE IF fl.data[fl.dptr] = NULL THEN skip
        ELSE IF fl.data[fl.dptr][r.qset_pos + 1] = NULL THEN skip
        ELSE
        LET max_cnt2 == Min(max_cnt1, q - r.q_pos)
            quantum == fl.data[fl.dptr][r.qset_pos + 1]
        IN  {[data |-> fl.data, log_pos |-> o.log_pos, path |-> "word",
              word |-> o.word, resched |-> TRUE] :
                o \in ScanWord(quantum, r.q_pos, 0, ScanLimit(max_cnt2), <<>>, lp0)}

---------------------------------------------------------------------------
(* The file operations and the work item, one call at a time *)

\* last: the call made last (op), for a write or a read its position and
\* for the work item the cursor it found (f_pos),
\* and its return value (ret), the bytes a read returned or the word the
\* work item printed (buf), the open mode or the branch the work item took
\* (path), dev->size before the call (osize), and for a write or a read the
\* caller's position *f_pos when the call returns (npos).
NoCall == [op |-> "none", path |-> "", f_pos |-> 0, ret |-> 0, buf |-> <<>>,
           osize |-> 0, npos |-> 0]

\* mod: where bchd_init and bchd_cleanup stand (phase); what became of
\* bchd_dev (dev), dev->wq_logger (wq) and dev->cdev (cdev); whether
\* cancel_delayed_work_sync is cancelling dev->ws_logger (canceling); and
\* the objects bchd_cleanup used although bchd_init never built them
\* (touched); whether bchd_init failed (err) and whether the work item was
\* running when its cancellation began (inflight).
Unloaded == [phase |-> "unloaded", dev |-> "null", wq |-> "null",
             cdev |-> "none", canceling |-> FALSE, touched |-> {},
             err |-> FALSE, inflight |-> FALSE]

\* bchd_init returned 0, lines 445-480.
Loaded == [Unloaded EXCEPT !.phase = "live", !.dev = "alloc",
                           !.wq = "created", !.cdev = "added"]

InitDev(c) ==
    /\ bchd_quantum_size = c.q
    /\ bchd_qset_size = c.s
    /\ bchd_max_word_len = c.w
    /\ data = NULL
    /\ quantum_size = c.q
    /\ qset_size = c.s
    /\ max_word_len = c.w
    /\ size = 0
    /\ log_pos = 0
    /\ scheduled = TRUE
    /\ lock = FALSE
    /\ pc = [t \in Tasks |-> "idle"]
    /\ last = NoCall
    /\ mod = Loaded

\* io: the phase of the session, the open mode, the payload b and its
\* offset o, the program's file position, the bytes read back so far, and
\* dev->size when the device was opened.
NoSession == [phase |-> "off", mode |-> "", o |-> 0, b |-> <<>>,
              f_pos |-> 0, got |-> <<>>, osize |-> 0]

Init ==
    /\ \E c \in Configs : InitDev(c)
    /\ io = NoSession

bchd_trim_KeepSize ==
    /\ data' = TrimmedData
    /\ quantum_size' = bchd_quantum_size
    /\ qset_size' = bchd_qset_size
    /\ log_pos' = 0
    /\ UNCHANGED <<max_word_len, size>>

bchd_trim_KeepLogPos ==
    /\ data' = TrimmedData
    /\ size' = 0
    /\ quantum_size' = bchd_quantum_size
    /\ qset_size' = bchd_qset_size
    /\ UNCHANGED <<max_word_len, log_pos>>

\* bchd_trim, lines 89-114.
bchd_trim ==
    /\ data' = TrimmedData
    /\ size' = 0
    /\ quantum_size' = bchd_quantum_size
    /\ qset_size' = bchd_qset_size
    /\ log_pos' = 0
    /\ UNCHANGED max_word_len

\* bchd_open with the lock free, lines 116-144.
OpenCall(mode) ==
    /\ IF mode = "O_WRONLY" THEN bchd_trim ELSE UNCHANGED storeVars
    /\ last' = [NoCall EXCEPT !.op = "open", !.path = mode, !.osize = size]

\* bchd_write with the lock free, lines 233-292.
WriteCall(f_pos, buf, avail, copied) ==
    \E w \in {WriteOutcome(data, size, quantum_size, qset_size, f_pos, buf,
                            avail, copied)} :
        /\ data' = w.data
        /\ size' = w.size
        /\ last' = [NoCall EXCEPT !.op = "write", !.f_pos = f_pos, !.ret = w.ret,
                                  !.osize = size, !.npos = w.f_pos]
        /\ UNCHANGED <<quantum_size, qset_size, max_word_len, log_pos>>

\* bchd_read with the lock free, lines 183-231.
ReadCall(f_pos, cnt, avail, fault) ==
    \E r \in {ReadOutcome(data, size, quantum_size, qset_size, f_pos, cnt,
                           avail, fault)} :
        /\ data' = r.data
        /\ last' = [NoCall EXCEPT !.op = "read", !.f_pos = f_pos, !.ret = r.ret,
                                  !.buf = r.buf, !.osize = size,
                                  !.npos = r.f_pos]
        /\ UNCHANGED <<quantum_size, qset_size, max_word_len, log_pos, size>>

\* queue_delayed_work(dev->wq_logger, &dev->ws_logger, delay), lines 368
\* and 433: the work becomes pending, unless cancel_delayed_work_sync holds
\* it (the call then returns false and queues nothing).
queue_delayed_work(called) == called /\ ~mod.canceling

\* bchd_log_word once it has the lock, lines 364-436; the work item is
\* pending again if it queued itself.
TickBody(avail) ==
    /\ \E t \in TickOutcomes(data, size, quantum_size, qset_size,
                             max_word_len, log_pos, avail) :
        /\ data' = t.data
        /\ log_pos' = t.log_pos
        /\ scheduled' = queue_delayed_work(t.resched)
        /\ last' = [NoCall EXCEPT !.op = "tick", !.path = t.path, !.buf = t.word,
                                  !.osize = size, !.f_pos = log_pos]
    /\ UNCHANGED <<quantum_size, qset_size, max_word_len, size>>

\* bchd_log_word with the lock free, lines 345-436.  The work item runs
\* when it is pending.
TickCall(avail) == scheduled /\ TickBody(avail)

Modes == {"O_RDONLY", "O_WRONLY", "O_RDWR"}

Bufs == UNION {[1..n -> Byte] : n \in 0..MaxCount}

Open ==
    /\ \E mode \in Modes : OpenCall(mode)
    /\ UNCHANGED <<confVars, mod, scheduled, lock, pc, io>>

\* A write whose allocations and copy succeed.
WriteAt(f_pos, buf) ==
    /\ WriteCall(f_pos, buf,
                 WriteAllocs(data, f_pos, quantum_size, qset_size), Len(buf))
    /\ UNCHANGED <<confVars, mod, scheduled, lock, pc, io>>

Write == \E f_pos \in 0..MaxPos, buf \in Bufs : WriteAt(f_pos, buf)

\* A write in which a kmalloc fails or copy_from_user faults.
WriteFail ==
    /\ \E f_pos \in 0..MaxPos, buf \in Bufs :
        \E avail \in 0..WriteAllocs(data, f_pos, quantum_size, qset_size),
           copied \in 0..Len(buf) :
            /\ (avail < WriteAllocs(data, f_pos, quantum_size, qset_size))
                  # (copied < Len(buf))
            /\ WriteCall(f_pos, buf, avail, copied)
    /\ UNCHANGED <<confVars, mod, scheduled, lock, pc, io>>

\* A read whose copy succeeds.
ReadAt(f_pos, cnt) ==
    /\ ReadCall(f_pos, cnt,
                FollowAllocs(data, f_pos, quantum_size, qset_size), FALSE)
    /\ UNCHANGED <<confVars, mod, scheduled, lock, pc, io>>

Read == \E f_pos \in 0..MaxPos + MaxCount, cnt \in 0..MaxCount : ReadAt(f_pos, cnt)

\* A read in which copy_to_user faults or bchd_follow cannot allocate.
ReadFail ==
    /\ \E f_pos \in 0..MaxPos + MaxCount, cnt \in 0..MaxCount :
        \E avail \in 0..FollowAllocs(data, f_pos, quantum_size, qset_size),
           fault \in BOOLEAN :
            /\ (avail < FollowAllocs(data, f_pos, quantum_size, qset_size))
                  # fault
            /\ ReadCall(f_pos, cnt, avail, fault)
    /\ UNCHANGED <<confVars, mod, scheduled, lock, pc, io>>

Tick ==
    /\ TickCall(FollowAllocs(data, WrapPos(log_pos, size),
                             quantum_size, qset_size))
    /\ UNCHANGED <<confVars, mod, lock, pc, io>>

Next == Open \/ Write \/ Read \/ Tick

Spec == Init /\ [][Next]_vars

---------------------------------------------------------------------------
(* The same calls when a kmalloc may fail and a copy may fault.  Of a call *)
(* `last' keeps only which it was, the open mode or the branch of the work *)
(* item, and the error it returned (0 when it returned none).              *)

Returned(op, path, ret) ==
    [NoCall EXCEPT !.op = op, !.path = path, !.ret = IF ret < 0 THEN ret ELSE 0]

\* bchd_open, lines 116-144.
ErrOpen ==
    /\ \E mode \in Modes :
        /\ IF mode = "O_WRONLY" THEN bchd_trim ELSE UNCHANGED storeVars
        /\ last' = Returned("open", mode, 0)
    /\ UNCHANGED <<confVars, mod, scheduled, lock, pc, io>>

\* bchd_write, lines 233-292, when the first `avail' kmalloc calls succeed
\* and copy_from_user stores `copied' bytes.
ErrWriteAt(f_pos, buf, avail, copied) ==
    /\ avail <= WriteAllocs(data, f_pos, quantum_size, qset_size)
    /\ copied <= Len(buf)
    /\ \E w \in {WriteOutcome(data, size, quantum_size, qset_size, f_pos, buf,
                                avail, copied)} :
        /\ data' = w.data
        /\ size' = w.size
        /\ last' = Returned("write", "", w.ret)
    /\ UNCHANGED <<quantum_size, qset_size, max_word_len, log_pos>>
    /\ UNCHANGED <<confVars, mod, scheduled, lock, pc, io>>

\* A write needs at most one list item per position up to MaxPos, a slot
\* array and a quantum.
MaxAllocs == MaxPos + 3

\* The buffers of these writes: 0..MaxCount bytes 'a'.
ErrBufs == {[i \in 1..n |-> 97] : n \in 0..MaxCount}

ErrWrite ==
    \E f_pos \in 0..MaxPos, buf \in ErrBufs, avail \in 0..MaxAllocs,
       copied \in 0..MaxCount :
        ErrWriteAt(f_pos, buf, avail, copied)

\* bchd_read, lines 183-231, when the first `avail' kmalloc calls succeed
\* and copy_to_user faults or not.
ErrReadAt(f_pos, cnt, avail, fault) ==
    /\ avail <= FollowAllocs(data, f_pos, quantum_size, qset_size)
    /\ \E r \in {ReadOutcome(data, size, quantum_size, qset_size, f_pos, cnt,
                               avail, fault)} :
        /\ data' = r.data
        /\ last' = Returned("read", "", r.ret)
    /\ UNCHANGED <<quantum_size, qset_size, max_word_len, log_pos, size>>
    /\ UNCHANGED <<confVars, mod, scheduled, lock, pc, io>>

ErrRead ==
    \E f_pos \in 0..MaxPos + MaxCount, cnt \in 0..MaxCount,
       avail \in 0..MaxAllocs, fault \in BOOLEAN :
        ErrReadAt(f_pos, cnt, avail, fault)

\* bchd_log_word, lines 345-436, when the first `avail' kmalloc calls
\* succeed.
ErrTickAt(avail) ==
    /\ scheduled
    /\ avail <= FollowAllocs(data, WrapPos(log_pos, size), quantum_size, qset_size)
    /\ \E t \in TickOutcomes(data, size, quantum_size, qset_size,
                             max_word_len, log_pos, avail) :
        /\ data' = t.data
        /\ log_pos' = t.log_pos
        /\ scheduled' = queue_delayed_work(t.resched)
        /\ last' = Returned("tick", t.path, 0)
    /\ UNCHANGED <<quantum_size, qset_size, max_word_len, size>>
    /\ UNCHANGED <<confVars, mod, lock, pc, io>>

ErrTick == \E avail \in 0..MaxAllocs : ErrTickAt(avail)

NextErr == ErrOpen \/ ErrWrite \/ ErrRead \/ ErrTick

SpecErr == Init /\ [][NextErr]_vars

---------------------------------------------------------------------------
(* A session of a user program, as `cat text > /dev/bchd; cat /dev/bchd':  *)
(* the device may hold earlier content; the program opens the device for   *)
(* writing, writes the payload b from offset o by successive write calls,  *)
(* each advancing its position by the count returned, opens the device     *)
(* read-only and reads the payload back from o by successive read calls,   *)
(* and then leaves the device to the work item.                            *)

\* "hello world\n"
HelloWorld == <<104, 101, 108, 108, 111, 32, 119, 111, 114, 108, 100, 10>>

Payloads == UNION {[1..n -> Byte] : n \in 1..MaxLen} \cup {HelloWorld}

IOConfigs == {[q |-> 2, s |-> 2, w |-> 3], [q |-> 4, s |-> 1, w |-> 3],
              [q |-> 12, s |-> 1, w |-> 7], [q |-> 16, s |-> 2, w |-> 20]}

InitIO ==
    /\ \E c \in IOConfigs : InitDev(c)
    /\ io = [NoSession EXCEPT !.phase = "pre"]

\* Earlier content: one write call to the empty device.
IOPre ==
    /\ io.phase = "pre"
    /\ data = NULL
    /\ \E f_pos \in 0..MaxPos, buf \in Bufs :
        WriteCall(f_pos, buf,
                  WriteAllocs(data, f_pos, quantum_size, qset_size), Len(buf))
    /\ UNCHANGED <<confVars, mod, scheduled, lock, pc, io>>

\* open(2) for writing; the program will write b from o.
IOOpen ==
    /\ io.phase = "pre"
    /\ \E mode \in {"O_WRONLY", "O_RDWR"}, o \in 0..MaxOff, b \in Payloads :
        /\ OpenCall(mode)
        /\ io' = [io EXCEPT !.phase = "write", !.mode = mode, !.o = o,
                            !.b = b, !.f_pos = o, !.osize = size]
    /\ UNCHANGED <<confVars, mod, scheduled, lock, pc>>

\* One write(2) of some of the bytes not written yet; *f_pos advances by
\* the count returned.
IOWrite ==
    /\ io.phase = "write"
    /\ \E cnt \in 1..(io.o + Len(io.b) - io.f_pos) :
        /\ WriteCall(io.f_pos,
                     SubSeq(io.b, io.f_pos - io.o + 1, io.f_pos - io.o + cnt),
                     WriteAllocs(data, io.f_pos, quantum_size, qset_size), cnt)
        /\ io' = [io EXCEPT
                    !.f_pos = io.f_pos + last'.ret,
                    !.phase = IF io.f_pos + last'.ret = io.o + Len(io.b)
                              THEN "reopen" ELSE "write"]
    /\ UNCHANGED <<confVars, mod, scheduled, lock, pc>>

\* open(2) read-only; the program will read from o.
IOReopen ==
    /\ io.phase = "reopen"
    /\ OpenCall("O_RDONLY")
    /\ io' = [io EXCEPT !.phase = "read", !.f_pos = io.o]
    /\ UNCHANGED <<confVars, mod, scheduled, lock, pc>>

\* One read(2) of some of the bytes not read yet.
IORead ==
    /\ io.phase = "read"
    /\ \E cnt \in 1..(Len(io.b) - Len(io.got)) :
        /\ ReadCall(io.f_pos, cnt,
                    FollowAllocs(data, io.f_pos, quantum_size, qset_size), FALSE)
        /\ io' = [io EXCEPT
                    !.f_pos = io.f_pos + last'.ret,
                    !.got = io.got \o last'.buf,
                    !.phase = IF Len(io.got) + last'.ret = Len(io.b)
                              THEN "log" ELSE "read"]
    /\ UNCHANGED <<confVars, mod, scheduled, lock, pc>>

\* The work item runs while the program does nothing more.
IOTick ==
    /\ io.phase = "log"
    /\ TickCall(FollowAllocs(data, WrapPos(log_pos, size),
                             quantum_size, qset_size))
    /\ UNCHANGED <<confVars, mod, lock, pc, io>>

NextIO == IOPre \/ IOOpen \/ IOWrite \/ IOReopen \/ IORead \/ IOTick

SpecIO == InitIO /\ [][NextIO]_vars

\* The work queue runs a pending work item when its delay has passed.
SpecIOFair == SpecIO /\ WF_vars(IOTick)

---------------------------------------------------------------------------
(* Concurrent callers.  Two user tasks call read, write and open(O_WRONLY) *)
(* and the kworker runs the work item.  A task is "idle" or in the         *)
(* critical section of a call: mutex_lock_interruptible returned 0 and the *)
(* call has not yet run its body and mutex_unlock.  A task that finds the  *)
(* lock taken sleeps; a sleeping task is either woken when the lock is     *)
(* free (Acquire) or interrupted (the Interrupted actions).                *)

ConcConfigs == {[q |-> 2, s |-> 1, w |-> 2]}

InitConc ==
    /\ \E c \in ConcConfigs : InitDev(c)
    /\ io = NoSession

\* mutex_lock_interruptible returns 0: lines 136, 193, 243.
Acquire(t, op) ==
    /\ pc[t] = "idle"
    /\ ~lock
    /\ lock' = TRUE
    /\ pc' = [pc EXCEPT ![t] = op]
    /\ UNCHANGED <<storeVars, confVars, mod, scheduled, last, io>>

UserAcquire == \E t \in Users, op \in {"open", "read", "write"} : Acquire(t, op)

\* The work item starts (it is no longer pending) and gets the lock:
\* line 361.
TickAcquire ==
    /\ scheduled
    /\ pc["kworker"] = "idle"
    /\ ~lock
    /\ lock' = TRUE
    /\ scheduled' = FALSE
    /\ pc' = [pc EXCEPT !["kworker"] = "tick"]
    /\ UNCHANGED <<storeVars, confVars, mod, last, io>>

\* mutex_lock_interruptible returns -EINTR while the task sleeps on the
\* taken lock; read, write and open return -ERESTARTSYS: lines 136-138,
\* 193-195, 243-245.
UserInterrupted ==
    /\ lock
    /\ \E t \in Users, op \in {"open", "read", "write"} :
        /\ pc[t] = "idle"
        /\ last' = [NoCall EXCEPT !.op = op, !.path = "intr",
                                  !.ret = 0 - ERESTARTSYS, !.osize = size]
    /\ UNCHANGED <<storeVars, confVars, mod, scheduled, lock, pc, io>>

\* The lock after mutex_unlock by a task that does not hold it, line 435:
\* the kernel clears the owner, so the lock is free whoever held it.
UnlockNotHeld == FALSE

\* mutex_lock_interruptible returns -EINTR in the work item: lines 361-363
\* go to out, line 435, which calls mutex_unlock; the work is not queued
\* again.
TickInterrupted ==
    /\ scheduled
    /\ pc["kworker"] = "idle"
    /\ lock
    /\ scheduled' = FALSE
    /\ lock' = UnlockNotHeld
    /\ last' = [NoCall EXCEPT !.op = "tick", !.path = "intr", !.osize = size]
    /\ UNCHANGED <<storeVars, confVars, mod, pc, io>>

\* The body of the call and its mutex_unlock.
Release(t) ==
    /\ lock' = FALSE
    /\ pc' = [pc EXCEPT ![t] = "idle"]

\* bchd_open, lines 139-140.
OpenBody ==
    /\ \E t \in Users :
        /\ pc[t] = "open"
        /\ OpenCall("O_WRONLY")
        /\ Release(t)
    /\ UNCHANGED <<confVars, mod, scheduled, io>>

\* bchd_write, lines 247-291.
WriteBody ==
    /\ \E t \in Users :
        /\ pc[t] = "write"
        /\ \E f_pos \in 0..MaxPos, buf \in Bufs :
            WriteCall(f_pos, buf,
                      WriteAllocs(data, f_pos, quantum_size, qset_size), Len(buf))
        /\ Release(t)
    /\ UNCHANGED <<confVars, mod, scheduled, io>>

\* bchd_read, lines 196-230.
ReadBody ==
    /\ \E t \in Users :
        /\ pc[t] = "read"
        /\ \E f_pos \in 0..MaxPos + MaxCount, cnt \in 0..MaxCount :
            ReadCall(f_pos, cnt,
                     FollowAllocs(data, f_pos, quantum_size, qset_size), FALSE)
        /\ Release(t)
    /\ UNCHANGED <<confVars, mod, scheduled, io>>

\* bchd_log_word, lines 364-435.
TickRun ==
    /\ pc["kworker"] = "tick"
    /\ TickBody(FollowAllocs(data, WrapPos(log_pos, size), quantum_size, qset_size))
    /\ Release("kworker")
    /\ UNCHANGED <<confVars, mod, io>>

NextConc ==
    \/ UserAcquire
    \/ TickAcquire
    \/ UserInterrupted
    \/ TickInterrupted
    \/ OpenBody
    \/ WriteBody
    \/ ReadBody
    \/ TickRun

SpecConc == InitConc /\ [][NextConc]_vars

---------------------------------------------------------------------------
(* The life of the module: insmod runs bchd_init, rmmod runs bchd_cleanup. *)
(* A file of the device that is open pins the module (bchd_fops.owner), so *)
(* bchd_cleanup runs when no file operation is in progress; the work item  *)
(* may be pending or running.  mod.phase is "unloaded", "live", the line   *)
(* bchd_cleanup has reached ("c321", "c322", "c327", "c329"), "done" when  *)
(* it has returned, or "oops" when the kernel stopped it.                  *)

LifeConfigs == {[q |-> 2, s |-> 1, w |-> 2]}

\* Before insmod: no device, no work item.
InitLife ==
    /\ \E c \in LifeConfigs :
        /\ bchd_quantum_size = c.q
        /\ bchd_qset_size = c.s
        /\ bchd_max_word_len = c.w
    /\ data = NULL
    /\ quantum_size = 0
    /\ qset_size = 0
    /\ max_word_len = 0
    /\ size = 0
    /\ log_pos = 0
    /\ scheduled = FALSE
    /\ lock = FALSE
    /\ pc = [t \in Tasks |-> "idle"]
    /\ last = NoCall
    /\ io = NoSession
    /\ mod = Unloaded

\* bchd_init, lines 438-485.  failure: the call that fails, if any --
\* alloc_chrdev_region (line 445), kmalloc of bchd_dev (line 453) or
\* create_singlethread_workqueue (line 464).  The last two go to fail:,
\* which calls bchd_cleanup.
bchd_init ==
    /\ mod.phase = "unloaded"
    /\ \E failure \in {"none", "region", "dev", "wq"} :
        /\ mod' = CASE failure = "region" ->
                        [mod EXCEPT !.phase = "done", !.err = TRUE]
                    [] failure = "dev" ->
                        [mod EXCEPT !.phase = "c321", !.err = TRUE]
                    [] failure = "wq" ->
                        [mod EXCEPT !.phase = "c321", !.err = TRUE,
                                    !.dev = "alloc"]
                    [] OTHER -> Loaded
        /\ IF failure \in {"wq", "none"}
           THEN /\ quantum_size' = bchd_quantum_size
                /\ qset_size' = bchd_qset_size
                /\ max_word_len' = bchd_max_word_len
           ELSE UNCHANGED <<quantum_size, qset_size, max_word_len>>
        /\ scheduled' = (failure = "none")
    /\ UNCHANGED <<confVars, data, size, log_pos, lock, pc, last, io>>

\* rmmod: module_exit(bchd_cleanup), line 488.
Rmmod ==
    /\ mod.phase = "live"
    /\ \A t \in Users : pc[t] = "idle"
    /\ mod' = [mod EXCEPT !.phase = "c321"]
    /\ UNCHANGED <<storeVars, confVars, scheduled, lock, pc, last, io>>

\* bchd_cleanup, line 321, reads bchd_dev->wq_logger.  With bchd_dev NULL
\* the read is a NULL pointer dereference: the kernel stops the task, or the
\* read yields some value and bchd_cleanup goes on as if it were NULL.  With
\* a work queue, cancel_delayed_work_sync (line 322) takes the work off the
\* queue and holds it, so that nobody can queue it.
CleanupCancel ==
    /\ mod.phase = "c321"
    /\ IF mod.dev = "null"
       THEN /\ \E outcome \in {"oops", "c327"} :
                mod' = [mod EXCEPT !.phase = outcome,
                                   !.touched = @ \cup {"bchd_dev"}]
            /\ UNCHANGED scheduled
       ELSE IF mod.wq = "created"
       THEN /\ mod' = [mod EXCEPT !.phase = "c322", !.canceling = TRUE,
                                  !.inflight = (pc["kworker"] # "idle")]
            /\ scheduled' = FALSE
       ELSE /\ mod' = [mod EXCEPT !.phase = "c327"]
            /\ UNCHANGED scheduled
    /\ UNCHANGED <<storeVars, confVars, lock, pc, last, io>>

InFlightDone_NoWait == TRUE

\* cancel_delayed_work_sync, line 322, returns when the work item is not
\* running.
InFlightDone == pc["kworker"] = "idle"

\* cancel_delayed_work_sync returns and destroy_workqueue runs, lines
\* 322-323.
CleanupFlush ==
    /\ mod.phase = "c322"
    /\ InFlightDone
    /\ mod' = [mod EXCEPT !.phase = "c327", !.canceling = FALSE,
                          !.wq = "destroyed"]
    /\ UNCHANGED <<storeVars, confVars, scheduled, lock, pc, last, io>>

\* Lines 327-328: bchd_trim(bchd_dev) unless bchd_dev is NULL; with
\* bchd_dev NULL, line 334 and the return.
CleanupTrim ==
    /\ mod.phase = "c327"
    /\ IF mod.dev = "null"
       THEN /\ mod' = [mod EXCEPT !.phase = "done"]
            /\ UNCHANGED storeVars
       ELSE /\ mod' = [mod EXCEPT !.phase = "c329"]
            /\ bchd_trim
    /\ last' = [NoCall EXCEPT !.op = "cleanup", !.osize = size]
    /\ UNCHANGED <<confVars, scheduled, lock, pc, io>>

\* Lines 329-336: cdev_del(&bchd_dev->cdev), also of a cdev that
\* bchd_setup_cdev never set up, kfree(bchd_dev), unregister_chrdev_region.
CleanupFree ==
    /\ mod.phase = "c329"
    /\ mod' = [mod EXCEPT !.phase = "done", !.dev = "freed",
                          !.cdev = "deleted",
                          !.touched = IF mod.cdev = "none"
                                      THEN @ \cup {"cdev"} ELSE @]
    /\ UNCHANGED <<storeVars, confVars, scheduled, lock, pc, last, io>>

\* A user program writes to the loaded device.
LifeWrite ==
    /\ mod.phase = "live"
    /\ ~lock
    /\ Write

\* The worker runs the work item: it takes the lock, line 361.
LifeTickAcquire ==
    /\ mod.wq = "created"
    /\ TickAcquire

NextLife ==
    \/ bchd_init
    \/ LifeWrite
    \/ LifeTickAcquire
    \/ TickRun
    \/ Rmmod
    \/ CleanupCancel
    \/ CleanupFlush
    \/ CleanupTrim
    \/ CleanupFree

SpecLife == InitLife /\ [][NextLife]_vars

---------------------------------------------------------------------------
(* Properties *)

\* The byte stored at pos; Uninit if its quantum does not exist or the byte
\* was never written.
StoredByte(pos) ==
    LET r == Resolve(pos, quantum_size, qset_size)
    IN  IF r.item + 1 > Len(data) THEN Uninit
        ELSE IF data[r.item + 1] = NULL THEN Uninit
        ELSE IF data[r.item + 1][r.qset_pos + 1] = NULL THEN Uninit
        ELSE data[r.item + 1][r.qset_pos + 1][r.q_pos + 1]

\* The state bchd_trim leaves.
Trimmed ==
    /\ size = 0
    /\ log_pos = 0
    /\ data = NULL
    /\ quantum_size = bchd_quantum_size
    /\ qset_size = bchd_qset_size

\* C1 (round trip): the bytes the session's successive reads from o have
\* returned so far are the first bytes of the payload b its successive
\* writes stored from o, and once they are len(b) bytes they are b.
C1_RoundTrip ==
    io.phase \in {"read", "log"} =>
        /\ Len(io.got) <= Len(io.b)
        /\ io.got = SubSeq(io.b, 1, Len(io.got))
        /\ io.phase = "log" => io.got = io.b

\* A payload of more bytes than a quantum, written from an offset o > 0 with
\* content stored before, has been read back.
C1_Witness ==
    /\ io.phase = "log"
    /\ io.o > 0
    /\ io.osize > 0
    /\ Len(io.b) > quantum_size
    /\ io.got = io.b

\* C2 (no phantom data), as claimed: a read returns only bytes that a write
\* stored; at an offset nothing was stored to it returns no byte.
C2_NoPhantomData ==
    last.op = "read" => \A i \in 1..Len(last.buf) : last.buf[i] # Uninit

\* C3 (trim resets): an open in write-only mode leaves size = 0, cursor = 0,
\* no list item and the default quantum and qset sizes; and from such a
\* state every call that is not a write leaves it so, a read returning no
\* byte.
C3_TrimResets ==
    [][/\ (last'.op = "open" /\ last'.path = "O_WRONLY") => Trimmed'
       /\ (Trimmed /\ last'.op # "write") =>
            /\ Trimmed'
            /\ last'.op = "read" => (last'.ret = 0 /\ last'.buf = <<>>)]_vars

\* A device that held bytes and whose cursor had moved was trimmed.
C3_Witness ==
    /\ last.op = "open"
    /\ last.path = "O_WRONLY"
    /\ last.osize > 0
    /\ Trimmed

\* After the session wrote b from offset 0: size is len(b) and every read
\* returns bytes of b only.
Overwritten ==
    /\ size = Len(io.b)
    /\ \A f_pos \in 0..(size + 1), cnt \in 1..(size + 1) :
        \E r \in {ReadOutcome(data, size, quantum_size, qset_size, f_pos, cnt,
                              FollowAllocs(data, f_pos, quantum_size, qset_size),
                              FALSE)} :
            /\ f_pos < size => r.ret > 0
            /\ \A i \in 1..r.ret :
                f_pos + i <= Len(io.b) /\ r.buf[i] = io.b[f_pos + i]

\* C4 (overwrite on open): an open in write-only mode trims the store, an
\* open in read-write or read-only mode leaves the store as it is; and when a session that opened
\* write-only has written its payload b from offset 0, size = len(b) and no
\* read returns a byte that is not of b.
C4_OverwriteOnOpen ==
    [][/\ (io.phase = "pre" /\ io'.phase = "write" /\ IOOpen) =>
            IF io'.mode = "O_WRONLY"
            THEN size' = 0 /\ log_pos' = 0 /\ data' = NULL
            ELSE UNCHANGED storeVars
       /\ (io.phase = "reopen" /\ IOReopen) => UNCHANGED storeVars
       /\ (io'.phase = "reopen" /\ io'.mode = "O_WRONLY" /\ io'.o = 0)
            => Overwritten']_vars

\* A payload shorter than the earlier content was written after a
\* write-only open.
C4_Witness ==
    /\ io.phase = "reopen"
    /\ io.mode = "O_WRONLY"
    /\ io.o = 0
    /\ io.osize > Len(io.b)
    /\ size = Len(io.b)

\* C5 (growth on write): a write at f_pos whose allocations and copy succeed
\* returns the count clipped to the end of the quantum, leaves
\* size = max(old size, f_pos + count returned) (f_pos + count returned when
\* f_pos > old size) and a list that reaches the item of f_pos; and size
\* decreases only by a trim.
C5_GrowthOnWrite ==
    [][/\ \A f_pos \in 0..MaxPos, buf \in Bufs :
            (last'.op = "write" /\ last'.f_pos = f_pos /\ WriteAt(f_pos, buf)) =>
                LET r == Resolve(f_pos, quantum_size, qset_size)
                IN  /\ last'.ret = Min(Len(buf), quantum_size - r.q_pos)
                    /\ size' = Max(size, f_pos + last'.ret)
                    /\ f_pos > size => size' = f_pos + last'.ret
                    /\ Len(data') = Max(Len(data), r.item + 1)
       /\ size' < size =>
            (last'.op = "open" /\ last'.path = "O_WRONLY" /\ size' = 0)]_vars

\* A write beyond the end, into a list item that did not exist, stored
\* bytes.
C5_Witness ==
    /\ last.op = "write"
    /\ last.osize > 0
    /\ last.f_pos > last.osize
    /\ last.ret > 0
    /\ size = last.f_pos + last.ret
    /\ Len(data) = 2
    /\ data[2] # NULL

HelloSp == <<104, 101, 108, 108, 111, 32>>
WorldSp == <<119, 111, 114, 108, 100, 32>>
World == <<119, 111, 114, 108, 100>>

\* The store holds exactly "hello world\n", in one quantum, and words of
\* six characters fit the word buffer.
HelloStored ==
    /\ io.b = HelloWorld
    /\ io.o = 0
    /\ size = Len(HelloWorld)
    /\ \A i \in 1..Len(HelloWorld) : StoredByte(i - 1) = HelloWorld[i]
    /\ quantum_size >= Len(HelloWorld)
    /\ max_word_len >= Len(HelloSp) + 1

\* C6 (tokenizer cycle), as claimed: the ticks print "hello ", "world ",
\* "hello " (the cursor reset to 0 first), and so on.
C6_CycleAsClaimed ==
    [][(IOTick /\ HelloStored) =>
        IF last.op # "tick" THEN log_pos = 0 /\ last'.buf = HelloSp
        ELSE IF last.buf = HelloSp THEN last'.buf = WorldSp
        ELSE /\ last.buf = WorldSp
             /\ last'.buf = HelloSp
             /\ log_pos' = Len(HelloSp)]_vars

\* C6, amended: the second tick prints "world" without a trailing space and
\* leaves the cursor at 11, on the last byte.
C6_Cycle ==
    [][(IOTick /\ HelloStored) =>
        IF last.op # "tick"
        THEN log_pos = 0 /\ last'.buf = HelloSp /\ log_pos' = Len(HelloSp)
        ELSE IF last.buf = HelloSp
        THEN last'.buf = World /\ log_pos' = Len(HelloWorld) - 1
        ELSE /\ last.buf = World
             /\ last'.buf = HelloSp
             /\ log_pos' = Len(HelloSp)]_vars

\* The third tick has printed "hello " again.
C6_Witness ==
    /\ HelloStored
    /\ last.op = "tick"
    /\ last.buf = HelloSp
    /\ log_pos = Len(HelloSp)
    /\ io.osize > 0

\* n bytes that are stored and are no separators follow pos.
RunAt(pos, n) ==
    /\ pos + n <= size
    /\ \A k \in 0..(n - 1) : StoredByte(pos + k) \notin {Uninit, SPACE, NEWLINE}

\* The word of max_word_len - 1 characters at the cursor was printed and the
\* cursor moved past it.
TruncatedWord ==
    /\ last'.path = "word"
    /\ last'.buf = [i \in 1..(max_word_len - 1) |-> StoredByte(log_pos + i - 1)]
    /\ log_pos' = log_pos + max_word_len - 1

\* C7 (word truncation), as claimed: wherever max_word_len bytes that are
\* no separators follow the cursor, a tick prints the first max_word_len - 1
\* of them and advances the cursor by max_word_len - 1.
C7_TruncationAsClaimed ==
    [][(IOTick /\ RunAt(log_pos, max_word_len)) => TruncatedWord]_vars

\* C7, amended: ... provided these max_word_len bytes lie in one quantum.
C7_Truncation ==
    [][(/\ IOTick
        /\ RunAt(log_pos, max_word_len)
        /\ quantum_size - Resolve(log_pos, quantum_size, qset_size).q_pos
             >= max_word_len)
        => TruncatedWord]_vars

\* A tick has printed the first max_word_len - 1 bytes of a longer run.
C7_Witness ==
    /\ last.op = "tick"
    /\ last.path = "word"
    /\ Len(last.buf) = max_word_len - 1
    /\ log_pos = max_word_len - 1
    /\ RunAt(0, max_word_len)
    /\ \A i \in 1..Len(last.buf) : last.buf[i] = StoredByte(i - 1)

C10_AlwaysRescheduled == [][Tick => scheduled']_vars

\* The tasks inside a critical section.
InCS == {t \in Tasks : pc[t] # "idle"}

\* C9 (mutual exclusion), as claimed: at most one of read, write, trim and
\* tick is inside its critical section.
C9_MutualExclusion == Cardinality(InCS) <= 1

\* bchd_cleanup has reached the trim of the store or is past it.
TeardownBegun == mod.phase \in {"c327", "c329", "done"} /\ ~mod.err

\* C11 (shutdown ordering): once bchd_cleanup has reached the trim of the
\* store, and so when the store is freed, the work item is neither pending
\* nor running nor held by a cancellation: the pending tick was cancelled,
\* a running one was waited for, and the tick it queued while it was being
\* cancelled did not survive.
C11_ShutdownOrdering ==
    /\ TeardownBegun =>
        (~scheduled /\ pc["kworker"] = "idle" /\ ~mod.canceling)
    /\ mod.dev = "freed" => (TeardownBegun \/ mod.err)

\* The store of a device that held bytes was trimmed at shutdown; the work
\* item was running when its cancellation began.
C11_Witness ==
    /\ mod.phase = "c329"
    /\ ~mod.err
    /\ mod.inflight
    /\ last.op = "cleanup"
    /\ last.osize > 0
    /\ Trimmed
    /\ ~scheduled

\* C20 (init failure is clean), as claimed: when bchd_init fails, its
\* cleanup uses no object that bchd_init did not build (never bchd_dev when
\* it is NULL), is not stopped by the kernel, cancels or runs no work item
\* and leaves none pending.
C20_InitFailureClean ==
    mod.err =>
        /\ mod.touched = {}
        /\ mod.phase # "oops"
        /\ ~scheduled
        /\ ~mod.canceling
        /\ pc["kworker"] = "idle"

\* C13 (interrupted acquisition), as claimed: a read, write, write-only open
\* or tick whose mutex_lock_interruptible is interrupted changes neither
\* size, cursor, list nor stored bytes and leaves the lock as it was; and a
\* call that took the lock has released it when it returns.
C13_InterruptedNoChange ==
    [][/\ (UserInterrupted \/ TickInterrupted) => UNCHANGED <<storeVars, lock>>
       /\ \A t \in Tasks :
            (pc[t] # "idle" /\ pc'[t] = "idle") => ~lock']_vars

\* The positions a byte can be stored at.
AllPos == 0..(MaxPos + MaxCount)

\* What a write at f_pos returns and leaves when only its first `avail'
\* allocations succeed.
OutOfMemory(f_pos, buf, avail) ==
    LET w == WriteOutcome(data, size, quantum_size, qset_size, f_pos, buf,
                          avail, Len(buf))
        r == Resolve(f_pos, quantum_size, qset_size)
        items == FollowAllocs(data, f_pos, quantum_size, qset_size)
    IN  /\ w.ret = 0 - ENOMEM
        /\ w.f_pos = f_pos
        /\ w.size = size
        /\ Len(w.data) = Len(data) + Min(avail, items)
        /\ avail > items => w.data[r.item + 1] = NewQsetData(qset_size)
        /\ \A i \in 1..Len(data) : data[i] # NULL => w.data[i] = data[i]

\* C14 (out of memory on write): a write in which an allocation fails --
\* of a list item in bchd_follow, of the slot array or of the quantum --
\* returns -ENOMEM and no count, does not move the caller's position and
\* leaves size, cursor and every stored byte as they were; the list items
\* and the slot array allocated before the failure remain in the list; the
\* lock is free afterwards.
C14_OutOfMemoryOnWrite ==
    /\ [](\A f_pos \in 0..MaxPos, buf \in ErrBufs, avail \in 0..MaxAllocs :
            avail < WriteAllocs(data, f_pos, quantum_size, qset_size)
                => OutOfMemory(f_pos, buf, avail))
    /\ [][(last'.op = "write" /\ last'.ret = 0 - ENOMEM) =>
            /\ size' = size
            /\ log_pos' = log_pos
            /\ Len(data') >= Len(data)
            /\ \A pos \in AllPos : StoredByte(pos)' = StoredByte(pos)
            /\ ~lock']_vars

\* A write to a device that holds bytes failed after bchd_follow had added
\* a list item: the item is in the list, without a slot array.
C14_Witness ==
    /\ last.op = "write"
    /\ last.ret = 0 - ENOMEM
    /\ size > 0
    /\ Len(data) >= 2
    /\ data[1] # NULL
    /\ data[Len(data)] = NULL

\* C15 (fault leaves the store unchanged), as claimed: a write or a read
\* that returns -EFAULT leaves size, cursor, the list items, slot arrays and
\* quanta present and the stored bytes as they were.
C15_FaultLeavesStore ==
    [][(last'.op \in {"write", "read"} /\ last'.ret = 0 - EFAULT)
        => UNCHANGED <<data, size, log_pos>>]_vars

\* C17 (tick frame): a tick, whichever branch it takes and whether or not
\* allocations succeed, leaves size, the list with its slot arrays and
\* quanta, and the stored bytes as they were.
C17_TickFrame ==
    [][(last'.op = "tick" /\ ErrTick) =>
        UNCHANGED <<data, size, quantum_size, qset_size, max_word_len>>]_vars

\* A tick printed a word of a store of two list items and moved the cursor.
C17_Witness ==
    /\ last.op = "tick"
    /\ last.path = "word"
    /\ log_pos > 0
    /\ Len(data) >= 2
    /\ data[2] # NULL

\* Every position below size lies in a list item that exists.
ChainCoversSize ==
    \A pos \in AllPos :
        pos < size => Resolve(pos, quantum_size, qset_size).item < Len(data)

\* C18 (chain covers size): every position below size resolves to a list
\* item that exists, also after writes that failed; so bchd_follow
\* allocates nothing and does not fail in a read at f_pos < size and in a
\* tick, and only a write makes the list longer.
C18_ChainCoversSize ==
    /\ [](/\ ChainCoversSize
          /\ \A f_pos \in AllPos :
                f_pos < size =>
                    FollowAllocs(data, f_pos, quantum_size, qset_size) = 0
          /\ size > 0 =>
                FollowAllocs(data, WrapPos(log_pos, size), quantum_size,
                             qset_size) = 0)
    /\ [][Len(data') > Len(data) => last'.op = "write"]_vars

\* After a write failed for lack of memory and another faulted, the device
\* holds bytes in its second list item.
C18_Witness ==
    /\ last.op = "write"
    /\ last.ret = 0 - EFAULT
    /\ Len(data) >= 2
    /\ size > quantum_size * qset_size
    /\ \E i \in 1..Len(data) : data[i] = NULL

\* C12 (cursor invariant): 0 <= cursor <= size in every state that calls of
\* read, write, open and the work item lead to; and a tick that finds
\* cursor + 1 >= size on a device that holds bytes reads from position 0:
\* the word it prints is made of the first stored bytes and the cursor is
\* left behind them (at 0 if the tick is skipped).
C12_CursorInvariant ==
    /\ [](0 <= log_pos /\ log_pos <= size)
    /\ [][(last'.op = "tick" /\ size > 0 /\ log_pos + 1 >= size /\ Tick) =>
            /\ last'.path \in {"skip", "word"}
            /\ log_pos' = Len(last'.buf)
            /\ \A i \in 1..Len(last'.buf) :
                    last'.buf[i] \in {StoredByte(i - 1), SPACE}]_vars

\* A tick that found the cursor on the last of two stored bytes printed the
\* first byte.
C12_Witness ==
    /\ last.op = "tick"
    /\ last.path = "word"
    /\ last.osize = 2
    /\ last.f_pos = 1
    /\ Len(last.buf) = 1
    /\ last.buf[1] = StoredByte(0)
    /\ log_pos = 1

\* C16 (read result length): a read of at most cnt bytes at f_pos returns
\* no byte when f_pos >= size or the list item, slot array or quantum of
\* f_pos is absent; otherwise it returns min(cnt, size - f_pos,
\* quantum_size - q_pos) bytes, those of the quantum of f_pos from q_pos on,
\* and moves the caller's position by as many; the bytes lie in one quantum.
C16_ReadResult ==
    [][\A f_pos \in 0..(MaxPos + MaxCount), cnt \in 0..MaxCount :
        (last'.op = "read" /\ last'.f_pos = f_pos /\ ReadAt(f_pos, cnt)) =>
            LET r == Resolve(f_pos, quantum_size, qset_size)
                absent == \/ r.item + 1 > Len(data)
                          \/ data[r.item + 1] = NULL
                          \/ data[r.item + 1][r.qset_pos + 1] = NULL
                n == Min(cnt, Min(size - f_pos, quantum_size - r.q_pos))
            IN  IF f_pos >= size \/ absent
                THEN /\ last'.ret = 0
                     /\ last'.buf = <<>>
                     /\ last'.npos = f_pos
                ELSE /\ last'.ret = n
                     /\ last'.buf = [i \in 1..n |->
                            data[r.item + 1][r.qset_pos + 1][r.q_pos + i]]
                     /\ last'.npos = f_pos + n
                     /\ n > 0 =>
                            LET e == Resolve(f_pos + n - 1, quantum_size, qset_size)
                            IN  e.item = r.item /\ e.qset_pos = r.qset_pos]_vars

\* A read in the middle of a quantum returned the bytes up to its end, and
\* bytes are stored behind them.
C16_Witness ==
    /\ last.op = "read"
    /\ last.ret > 0
    /\ Resolve(last.f_pos, quantum_size, qset_size).q_pos > 0
    /\ Resolve(last.npos, quantum_size, qset_size).q_pos = 0
    /\ last.npos < size
    /\ \A i \in 1..last.ret : last.buf[i] = StoredByte(last.f_pos + i - 1)

\* The quantum of pos exists.
QuantumPresent(pos) ==
    LET r == Resolve(pos, quantum_size, qset_size)
    IN  /\ r.item + 1 <= Len(data)
        /\ data[r.item + 1] # NULL
        /\ data[r.item + 1][r.qset_pos + 1] # NULL

\* The program has finished writing and reading, the device holds bytes and
\* every quantum below size exists.
OnlyTicks ==
    /\ io.phase = "log"
    /\ size > 0
    /\ \A pos \in 0..(size - 1) : QuantumPresent(pos)

\* The last tick found the cursor at the end of the data and started again
\* from 0.
Wrapped ==
    /\ last.op = "tick"
    /\ last.path = "word"
    /\ last.f_pos + 1 >= last.osize

\* C19 (tokenizer progress), as claimed: when the device holds bytes, every
\* quantum below size exists and only ticks run from now on, a tick
\* eventually finds the cursor at the end of the data and starts again from
\* 0, whatever quantum_size and the stored bytes are; every tick that prints
\* a word either starts again from 0 or moves the cursor forward.
C19_TokenizerProgress ==
    /\ [](OnlyTicks => <>Wrapped)
    /\ [][(last'.op = "tick" /\ last'.path = "word" /\ OnlyTicks /\ IOTick) =>
            (log_pos + 1 >= size \/ log_pos' > log_pos)]_vars

====
